---- MODULE Spec2Model ----
(***************************************************************************)
(* kur/utils/audiotools.py: load_audio and get_audio_features, as a state  *)
(* machine.  One behaviour is one call get_audio_features(audio,           *)
(* feature_type, **kwargs) made by a caller, followed by one write of the  *)
(* caller to the returned array or to its own buffer.                      *)
(*                                                                         *)
(* Arrays are numpy arrays: a reference into `heap`, the storage.  A       *)
(* sample is the rational number num/den, so that the integer PCM sample s *)
(* is [num |-> s, den |-> 1] and scale_signal's s / 2**(w-1) is            *)
(* [num |-> s, den |-> 2^(w-1)].  A cell of the spectrogram is the value   *)
(* log(|rfft(frame * hanning)|^2 / scale + 1e-14) of one frequency bin of  *)
(* one frame; it is kept as the term [bin, edge, frame] it is computed     *)
(* from.  An optional keyword argument is <<>> (absent, None) or <<v>>.    *)
(***************************************************************************)
EXTENDS Integers, Sequences, FiniteSets, TLC

VARIABLES
    arg,            \* the `audio` argument as passed: a file name or a dict
    feature_type,   \* the feature_type argument
    kwargs,         \* the keyword arguments: features, low_freq, high_freq
    audio,          \* the local `audio`: the dict the features are taken from
    heap,           \* storage of the numpy arrays, by reference
    pc,             \* where the call is
    loc,            \* the locals of the 'spec' branch
    result,         \* the returned array: its storage and its shape
    outcome,        \* how the call ended: returned, or raised what, where
    files,          \* the file names that exist on disk
    ffmpeg,         \* whether the external decoder (ffmpeg/avconv) is installed
    ftype,          \* load_audio's detected MIME type
    exc,            \* the exception in flight inside load_audio
    log,            \* the records logger.exception has emitted
    loader_calls,   \* how many times load_audio has invoked a loader
    audio0,         \* history: the buffer's dict when the features were asked
    sig0,           \* history: the buffer's samples when the features were asked
    ret0,           \* history: the contents of the result when it was returned
    wrote           \* history: what the caller wrote to after the call

vars == <<arg, feature_type, kwargs, audio, heap, pc, loc, result, outcome,
          files, ffmpeg, ftype, exc, log, loader_calls, audio0, sig0, ret0,
          wrote>>

(***************************************************************************)
(* Bounds of the inputs.                                                   *)
(***************************************************************************)
MaxHops == 3
MaxExtra == 1
MaxPattern == 1

\* window_size and step_size, in milliseconds (0.020 s and 0.010 s).
WindowSizeMs == 20
StepSizeMs == 10
\* kwargs.get('features') or 13
DefaultFeatures == 13

SampleRates == {60, 140, 190, 250, 4000}
SampleWidths == {8, 16}
FeatureTypes == {"raw", "mfcc", "spec", "bogus", "RAW"}
Cutoffs == {<<>>, <<0>>, <<-100>>, <<100>>, <<125>>, <<2000>>}
FeatureCounts == {<<>>, <<20>>}
Garbage == {0, 1}

Max(a, b) == IF a >= b THEN a ELSE b
Min(a, b) == IF a <= b THEN a ELSE b

\* Python's int() of the rational n/d, d > 0: truncation toward zero.
IntTrunc(n, d) == IF n >= 0 THEN n \div d ELSE -((-n) \div d)

\* Truthy with only None falsy (`is not None` in place of truthiness).
truthy_not_none(v) == v # <<>>

\* Python truthiness of an optional number: None and 0 are falsy.
Truthy(v) == v # <<>> /\ v[1] # 0

Sample(s) == [num |-> s, den |-> 1]

\* The samples of an input signal of length L.
SignalOf(L, p) == [i \in 1..L |-> Sample(((3 * p * i) % 7) - 3)]

(***************************************************************************)
(* The 'spec' branch of get_audio_features.                                *)
(***************************************************************************)

\* scale_signal dividing in place (audio['signal'] /= ...): the buffer's own
\* storage is overwritten and returned.
scale_signal_inplace(h, a) ==
    [heap |-> [h EXCEPT ![a.signal] =
                  [i \in 1..Len(h[a.signal]) |->
                      [num |-> h[a.signal][i].num,
                       den |-> h[a.signal][i].den * 2^(a.sample_width - 1)]]],
     out  |-> [i \in 1..Len(h[a.signal]) |->
                  [num |-> h[a.signal][i].num,
                   den |-> h[a.signal][i].den * 2^(a.sample_width - 1)]]]

\* scale_signal: audio['signal'] / 2**(audio['sample_width'] - 1), a true
\* division, which makes a new array and leaves the storage as it is.
scale_signal(h, a) ==
    [heap |-> h,
     out  |-> [i \in 1..Len(h[a.signal]) |->
                  [num |-> h[a.signal][i].num,
                   den |-> h[a.signal][i].den * 2^(a.sample_width - 1)]]]

\* hop_size = int(step_size * sample_rate), frame_size = int(window_size *
\* sample_rate).  The double products 0.010 * sr and 0.020 * sr truncate to
\* sr // 100 and sr // 50 for every sr in 1..400000 (checked by enumeration).
hop_size_of(sr) == IntTrunc(StepSizeMs * sr, 1000)

\* frame_size rounded to the nearest integer instead of truncated.
frame_size_rounded(sr) == IntTrunc(WindowSizeMs * sr + 500, 1000)

frame_size_of(sr) == IntTrunc(WindowSizeMs * sr, 1000)

\* remove = (len(signal) - frame_size) % hop_size; Python's % of a positive
\* modulus is never negative, as TLA+'s.
remove_of(L, F, H) == (L - F) % H

\* len(clean): signal[:-remove] when remove is not 0, else signal.
clean_len_of(L, rem) == IF rem # 0 THEN Max(L - rem, 0) ELSE L

\* num_frames = (len(clean) - frame_size) // hop_size + 1
num_frames_of(cl, F, H) == (cl - F) \div H + 1

\* as_strided with its two strides exchanged.
strided_index_swapped(k, j, H) == k * H + j

\* as_strided(clean, shape=(frame_size, num_frames), strides=(s, s * hop_size)):
\* the element offset, from the start of clean, that frames[k][j] reads.
strided_index(k, j, H) == k + j * H

\* What a read at element offset i finds.  clean is a view of the scaled
\* array from its first element, so offsets below len(mem) read samples;
\* beyond the storage the read is of whatever lies there (g).
strided_read(mem, i, g) ==
    IF i < Len(mem) THEN mem[i + 1] ELSE [num |-> g, den |-> 0]

\* The frame matrix, shape (frame_size, num_frames): frames[k][j], with the
\* offset each element is read from and the value read.
frames_of(mem, F, N, H, g) ==
    [k \in 1..F |-> [j \in 1..N |->
        [idx |-> strided_index(k - 1, j - 1, H),
         val |-> strided_read(mem, strided_index(k - 1, j - 1, H), g)]]]

\* The number of rows of rfft(..., axis=0) of frame_size rows.
num_bins_of(F) == F \div 2 + 1

\* delta_freq = 1 / window_size, in Hz
delta_freq == 1000 \div WindowSizeMs

\* get_bin without the + 0.5: the bin below instead of the nearest.
get_bin_floor(f, alt, nb) ==
    IF f # <<>> /\ f[1] # 0
    THEN Min(Max(IntTrunc(f[1], 1000 \div WindowSizeMs), 0), nb)
    ELSE alt

\* get_bin = lambda f, alt: min(max(int(f / delta_freq + 0.5), 0), num_bins)
\* if f else alt.   f / delta_freq + 0.5 = (2 f + delta_freq) / (2 delta_freq).
get_bin(f, alt, nb) ==
    IF Truthy(f)
    THEN Min(Max(IntTrunc(2 * f[1] + delta_freq, 2 * delta_freq), 0), nb)
    ELSE alt

\* if low_freq or high_freq:
crop_wanted(lo, hi) == Truthy(lo) \/ Truthy(hi)

\* The power spectrum, shape (frequency, time): row b holds bin b - 1 of
\* every frame.  scaled[1:-1] /= scale/2 and scaled[[0, -1]] /= scale tell
\* the first and the last bin (edge) from the others.
power_of(frames, F, N) ==
    [b \in 1..num_bins_of(F) |-> [j \in 1..N |->
        [bin   |-> b - 1,
         edge  |-> (b = 1 \/ b = num_bins_of(F)),
         frame |-> [k \in 1..F |-> frames[k][j].val]]]]

\* numpy.log(spec + 1e-14).T of the rows [lo, hi) of the spectrum: shape
\* (time, frequency).  A Python slice [lo:hi] with lo >= hi is empty.
cropped_T(power, lo, hi, N) ==
    [j \in 1..N |-> [i \in 1..Max(hi - lo, 0) |-> power[lo + i][j]]]

NoLoc ==
    [hop_size |-> 0, frame_size |-> 0, remove |-> 0, clean_len |-> 0,
     num_frames |-> 0, num_bins |-> 0, cropped |-> FALSE,
     low_bin |-> 0, high_bin |-> 0, frames |-> <<>>]

\* Lines 194-258 on the scaled signal mem: how they end, the locals, and the
\* array returned.  % by a hop_size of 0 raises ZeroDivisionError; as_strided
\* with a negative num_frames raises ValueError (negative dimensions).
spec_features(mem, sr, low, high, g) ==
    LET H   == hop_size_of(sr)
        F   == frame_size_of(sr)
        L   == Len(mem)
    IN  IF H = 0
        THEN [status |-> "ZeroDivisionError",
              loc |-> [NoLoc EXCEPT !.hop_size = H, !.frame_size = F],
              data |-> <<>>, shape |-> <<>>]
        ELSE
        LET rem == remove_of(L, F, H)
            cl  == clean_len_of(L, rem)
            N   == num_frames_of(cl, F, H)
            l1  == [NoLoc EXCEPT !.hop_size = H, !.frame_size = F,
                                 !.remove = rem, !.clean_len = cl,
                                 !.num_frames = N]
        IN  IF N < 0
            THEN [status |-> "ValueError", loc |-> l1,
                  data |-> <<>>, shape |-> <<>>]
            ELSE
            LET frames == frames_of(mem, F, N, H, g)
                nb     == num_bins_of(F)
                crop   == crop_wanted(low, high)
                lo     == IF crop THEN get_bin(low, 0, nb) ELSE 0
                hi     == IF crop THEN get_bin(high, nb, nb) ELSE nb
            IN  [status |-> "ok",
                 loc    |-> [l1 EXCEPT !.num_bins = nb, !.cropped = crop,
                                       !.low_bin = lo, !.high_bin = hi,
                                       !.frames = frames],
                 data   |-> cropped_T(power_of(frames, F, N), lo, hi, N),
                 shape  |-> <<N, Max(hi - lo, 0)>>]

(***************************************************************************)
(* The other branches of get_audio_features.                               *)
(***************************************************************************)

\* The chain ending in a default: an unknown feature_type served as 'raw'.
branch_default_raw(ft) ==
    IF ft = "mfcc" THEN "mfcc" ELSE IF ft = "spec" THEN "spec" ELSE "raw"

\* The if / elif chain on feature_type (lines 179, 182, 193, 260).
branch_of(ft) ==
    IF ft = "raw" THEN "raw"
    ELSE IF ft = "mfcc" THEN "mfcc"
    ELSE IF ft = "spec" THEN "spec"
    ELSE "unsupported"

\* A new numpy array holding data: the storage after, and the reference.
new_array(h, data) == [heap |-> Append(h, data), ref |-> Len(h) + 1]

\* 'raw' returning the normalised signal instead of the buffer's array.
raw_features_scaled(h, a) ==
    [heap |-> Append(h, scale_signal(h, a).out), ref |-> Len(h) + 1]

\* return audio['signal']: the buffer's own array.
raw_features(h, a) == [heap |-> h, ref |-> a.signal]

\* python_speech_features.mfcc(signal, sample_rate, numcep, nfilt, lowfreq,
\* highfreq): an external routine; its value is kept as the term of its
\* arguments, in a new array.
mfcc_features(h, a, kw) ==
    LET num_features == IF Truthy(kw.features) THEN kw.features[1]
                        ELSE DefaultFeatures
    IN  new_array(h,
            <<[signal      |-> h[a.signal],
               sample_rate |-> a.sample_rate,
               numcep      |-> num_features,
               nfilt       |-> num_features * 2,
               lowfreq     |-> IF Truthy(kw.low_freq) THEN kw.low_freq[1] ELSE 0,
               highfreq    |-> IF Truthy(kw.high_freq) THEN kw.high_freq
                               ELSE <<>>]>>)

(***************************************************************************)
(* load_audio and its loaders.                                             *)
(***************************************************************************)
FileNames == {"a.wav", "bad.wav", "a.mp3", "bad.mp3", "a.flac", "notes.txt",
              "gone.mp3"}
Present == FileNames \ {"gone.mp3"}
Corrupt == {"bad.wav", "bad.mp3"}

\* magic.Magic(mime=True).from_file
mime_of(f) ==
    IF f \in {"a.wav", "bad.wav"} THEN "audio/x-wav"
    ELSE IF f \in {"a.mp3", "bad.mp3", "gone.mp3"} THEN "audio/mpeg"
    ELSE IF f = "a.flac" THEN "audio/x-flac"
    ELSE "text/plain"

\* The loaders dictionary.
loaders ==
    ("audio/x-wav" :> "load_wav") @@ ("audio/mpeg" :> "load_pydub")
        @@ ("audio/x-flac" :> "load_pydub")

\* What a decodable file decodes to: mono samples, rate and width.
decoded(f) ==
    IF f = "a.flac"
    THEN [signal |-> SignalOf(5, 1), sample_rate |-> 250, sample_width |-> 16]
    ELSE [signal |-> SignalOf(4, 1), sample_rate |-> 140, sample_width |-> 16]

\* The handler without the os.path.isfile test.
pydub_handler_always(isfile) == "DependencyError"

\* load_pydub's except FileNotFoundError: DependencyError when the file is
\* there, else the FileNotFoundError itself.
pydub_handler(isfile) ==
    IF isfile THEN "DependencyError" ELSE "FileNotFoundError"

\* load_audio with only its except DependencyError clause logging.
handler_log_dependency_only(e, f, t) ==
    IF e = "DependencyError"
    THEN <<[file |-> f, ftype |-> t, guidance |-> "ffmpeg"]>>
    ELSE <<>>

\* The records load_audio's except clauses log before they re-raise e.
handler_log(e, f, t) ==
    IF e = "DependencyError"
    THEN <<[file |-> f, ftype |-> t, guidance |-> "ffmpeg"]>>
    ELSE IF e = "KeyboardInterrupt" THEN <<>>
    ELSE <<[file |-> f, ftype |-> t, guidance |-> "troubleshooting"]>>

(***************************************************************************)
(* The state machine.                                                      *)
(***************************************************************************)
NoAudio == [signal |-> 0, sample_rate |-> 0, sample_width |-> 0, channels |-> 0]
NoResult == [base |-> 0, shape |-> <<>>]
NoOutcome == [kind |-> "none", exc |-> "", names |-> <<>>, stage |-> ""]
Returned == [kind |-> "return", exc |-> "", names |-> <<>>, stage |-> "features"]
Raised(e, names, stage) ==
    [kind |-> "raise", exc |-> e, names |-> names, stage |-> stage]

\* The signal lengths tried at a sample rate: around the multiples of its
\* hop.  An AudioBuffer's signal is not empty.
Lengths(sr) ==
    {k * hop_size_of(sr) + d : k \in 0..MaxHops, d \in 0..MaxExtra} \ {0}

KwargsSet ==
    [features : FeatureCounts, low_freq : Cutoffs, high_freq : Cutoffs]

InitCommon ==
    /\ feature_type \in FeatureTypes
    /\ kwargs \in KwargsSet
    /\ pc = "start"
    /\ loc = NoLoc
    /\ result = NoResult
    /\ outcome = NoOutcome
    /\ ftype = ""
    /\ exc = ""
    /\ log = <<>>
    /\ loader_calls = 0
    /\ ret0 = <<>>
    /\ wrote = ""

\* The caller passes a buffer it holds.
InitBuffer ==
    /\ \E sr \in SampleRates, w \in SampleWidths, p \in 1..MaxPattern :
         \E L \in Lengths(sr) :
            /\ audio = [signal |-> 1, sample_rate |-> sr, sample_width |-> w,
                        channels |-> 1]
            /\ audio0 = [signal |-> 1, sample_rate |-> sr, sample_width |-> w,
                         channels |-> 1]
            /\ heap = <<SignalOf(L, p)>>
            /\ sig0 = SignalOf(L, p)
    /\ arg = [isstr |-> FALSE, name |-> ""]
    /\ files = Present
    /\ ffmpeg = TRUE

\* The caller passes a file name.
InitFile ==
    /\ arg \in [isstr : {TRUE}, name : FileNames]
    /\ audio = NoAudio
    /\ audio0 = NoAudio
    /\ heap = <<>>
    /\ sig0 = <<>>
    /\ files = Present
    /\ ffmpeg \in BOOLEAN

Init == InitCommon /\ (InitBuffer \/ InitFile)

LoadVars == <<files, ffmpeg, ftype, exc, log, loader_calls>>
CallVars == <<arg, feature_type, kwargs>>

\* if isinstance(audio, str): audio = load_audio(audio)
enter ==
    /\ pc = "start"
    /\ pc' = IF arg.isstr THEN "load_audio" ELSE "dispatch"
    /\ UNCHANGED <<CallVars, LoadVars, audio, heap, loc, result, outcome,
                   audio0, sig0, ret0, wrote>>

\* load_audio up to the choice of the loader (lines 114-128).  from_file of
\* a file that is not there raises; a type with no loader raises IOError.
load_detect ==
    /\ pc = "load_audio"
    /\ IF arg.name \notin files
       THEN /\ ftype' = ftype
            /\ pc' = "raised"
            /\ outcome' = Raised("FileNotFoundError", <<arg.name>>, "detect")
       ELSE /\ ftype' = mime_of(arg.name)
            /\ IF mime_of(arg.name) \notin DOMAIN loaders
               THEN /\ pc' = "raised"
                    /\ outcome' = Raised("IOError",
                                         <<mime_of(arg.name), arg.name>>,
                                         "unsupported")
               ELSE /\ pc' = loaders[mime_of(arg.name)]
                    /\ outcome' = outcome
    /\ UNCHANGED <<CallVars, files, ffmpeg, exc, log, loader_calls, audio,
                   heap, loc, result, audio0, sig0, ret0, wrote>>

\* The loader returned: load_audio returns its dict, and the features are
\* taken from it.
loaded(f) ==
    /\ audio' = [signal |-> Len(heap) + 1,
                 sample_rate |-> decoded(f).sample_rate,
                 sample_width |-> decoded(f).sample_width,
                 channels |-> 1]
    /\ audio0' = audio'
    /\ heap' = Append(heap, decoded(f).signal)
    /\ sig0' = decoded(f).signal
    /\ pc' = "dispatch"
    /\ exc' = exc

\* The loader raised e inside load_audio's try.
loader_raised(e, at) ==
    /\ exc' = e
    /\ pc' = at
    /\ UNCHANGED <<audio, audio0, heap, sig0>>

\* loaders[ftype](filename) with load_wav (lines 42-56).
load_wav ==
    /\ pc = "load_wav"
    /\ loader_calls' = loader_calls + 1
    /\ \E interrupt \in BOOLEAN :
         IF interrupt THEN loader_raised("KeyboardInterrupt", "load_except")
         ELSE IF arg.name \notin files
              THEN loader_raised("FileNotFoundError", "load_except")
         ELSE IF arg.name \in Corrupt
              THEN loader_raised("ValueError", "load_except")
         ELSE loaded(arg.name)
    /\ UNCHANGED <<CallVars, files, ffmpeg, ftype, log, loc, result, outcome,
                   ret0, wrote>>

\* loaders[ftype](filename) with load_pydub, to the end of its try
\* (lines 62-63) and, when from_file returns, to its return.
load_pydub ==
    /\ pc = "load_pydub"
    /\ loader_calls' = loader_calls + 1
    /\ \E interrupt \in BOOLEAN :
         IF interrupt THEN loader_raised("KeyboardInterrupt", "load_except")
         ELSE IF arg.name \notin files \/ ~ffmpeg
              THEN loader_raised("FileNotFoundError", "pydub_except")
         ELSE IF arg.name \in Corrupt
              THEN loader_raised("CouldntDecodeError", "load_except")
         ELSE loaded(arg.name)
    /\ UNCHANGED <<CallVars, files, ffmpeg, ftype, log, loc, result, outcome,
                   ret0, wrote>>

\* load_pydub's except FileNotFoundError (lines 64-68).
pydub_except ==
    /\ pc = "pydub_except"
    /\ exc' = pydub_handler(arg.name \in files)
    /\ pc' = "load_except"
    /\ UNCHANGED <<CallVars, files, ffmpeg, ftype, log, loader_calls, audio,
                   heap, loc, result, outcome, audio0, sig0, ret0, wrote>>

\* load_audio's except clauses (lines 132-150): log, then raise.
load_except ==
    /\ pc = "load_except"
    /\ log' = log \o handler_log(exc, arg.name, ftype)
    /\ pc' = "raised"
    /\ outcome' = Raised(exc, <<>>, "loader")
    /\ UNCHANGED <<CallVars, files, ffmpeg, ftype, exc, loader_calls, audio,
                   heap, loc, result, audio0, sig0, ret0, wrote>>

\* The environment: the file is removed while load_audio runs.
remove_file ==
    /\ pc \in {"load_wav", "load_pydub", "pydub_except"}
    /\ arg.name \in files
    /\ files' = files \ {arg.name}
    /\ UNCHANGED <<CallVars, ffmpeg, ftype, exc, log, loader_calls, audio,
                   heap, pc, loc, result, outcome, audio0, sig0, ret0, wrote>>

\* The call returns the array r of the storage h.
returns(h, ref, shape) ==
    /\ heap' = h
    /\ result' = [base |-> ref, shape |-> shape]
    /\ ret0' = h[ref]
    /\ outcome' = Returned
    /\ pc' = "done"

\* feature_type == 'raw' (lines 179-180)
get_raw ==
    /\ pc = "dispatch"
    /\ branch_of(feature_type) = "raw"
    /\ LET r == raw_features(heap, audio)
       IN  returns(r.heap, r.ref, <<Len(r.heap[r.ref])>>)
    /\ UNCHANGED <<CallVars, LoadVars, audio, loc, audio0, sig0, wrote>>

\* feature_type == 'mfcc' (lines 182-191)
get_mfcc ==
    /\ pc = "dispatch"
    /\ branch_of(feature_type) = "mfcc"
    /\ LET r == mfcc_features(heap, audio, kwargs)
       IN  returns(r.heap, r.ref, <<Len(r.heap[r.ref])>>)
    /\ UNCHANGED <<CallVars, LoadVars, audio, loc, audio0, sig0, wrote>>

\* feature_type == 'spec' (lines 193-258)
get_spec ==
    /\ pc = "dispatch"
    /\ branch_of(feature_type) = "spec"
    /\ \E g \in Garbage :
         LET s == scale_signal(heap, audio)
             r == spec_features(s.out, audio.sample_rate, kwargs.low_freq,
                                kwargs.high_freq, g)
             n == new_array(s.heap, r.data)
         IN  /\ loc' = r.loc
             /\ IF r.status = "ok"
                THEN returns(n.heap, n.ref, r.shape)
                ELSE /\ heap' = s.heap
                     /\ pc' = "raised"
                     /\ outcome' = Raised(r.status, <<>>, "features")
                     /\ UNCHANGED <<result, ret0>>
    /\ UNCHANGED <<CallVars, LoadVars, audio, audio0, sig0, wrote>>

\* else: raise ValueError('Unsupported feature type: {}') (lines 260-261)
get_unsupported ==
    /\ pc = "dispatch"
    /\ branch_of(feature_type) = "unsupported"
    /\ pc' = "raised"
    /\ outcome' = Raised("ValueError", <<feature_type>>, "features")
    /\ UNCHANGED <<CallVars, LoadVars, audio, heap, loc, result, audio0, sig0, ret0,
                   wrote>>

\* What the caller writes.
Written == [num |-> 9, den |-> 1]

\* The array a with its first element (of a matrix: of its first row) set.
write_first(a, shape) ==
    IF Len(shape) = 2
    THEN [a EXCEPT ![1] = [a[1] EXCEPT ![1] = Written]]
    ELSE [a EXCEPT ![1] = Written]

has_element(shape) == \A i \in 1..Len(shape) : shape[i] > 0

\* After the call the caller writes into the array it got back.
write_result ==
    /\ pc = "done"
    /\ has_element(result.shape)
    /\ heap' = [heap EXCEPT ![result.base] = write_first(@, result.shape)]
    /\ wrote' = "result"
    /\ pc' = "written"
    /\ UNCHANGED <<CallVars, LoadVars, audio, loc, result, outcome, audio0, sig0, ret0>>

\* After the call the caller writes into its buffer's signal.
write_buffer ==
    /\ pc = "done"
    /\ Len(heap[audio.signal]) > 0
    /\ heap' = [heap EXCEPT ![audio.signal] = write_first(@, <<Len(@)>>)]
    /\ wrote' = "buffer"
    /\ pc' = "written"
    /\ UNCHANGED <<CallVars, LoadVars, audio, loc, result, outcome, audio0, sig0, ret0>>

Next ==
    \/ enter
    \/ load_detect
    \/ load_wav
    \/ load_pydub
    \/ pydub_except
    \/ load_except
    \/ remove_file
    \/ get_raw
    \/ get_mfcc
    \/ get_spec
    \/ get_unsupported
    \/ write_result
    \/ write_buffer

Spec == Init /\ [][Next]_vars

(***************************************************************************)
(* Properties.                                                             *)
(***************************************************************************)

\* get_audio_features has ended, having had an audio dict to work on.
Finished ==
    \/ pc \in {"done", "written"}
    \/ pc = "raised" /\ outcome.stage = "features"

Supported == {"raw", "mfcc", "spec"}

\* sig0 as scale_signal leaves it: every sample over 2^(sample_width - 1).
Scaled0 ==
    [i \in 1..Len(sig0) |->
        [num |-> sig0[i].num, den |-> 2^(audio.sample_width - 1)]]

\* C1: when the signal is shorter than one frame, get_audio_features(audio,
\* 'spec') fails with an error; it never returns a matrix (an empty or
\* zero-frame one included).
C1_ShortSignalFails ==
    ( /\ feature_type = "spec"
      /\ Finished
      /\ Len(sig0) < loc.frame_size )
    => /\ outcome.kind = "raise"
       /\ outcome.exc \in {"InvalidInput", "ValueError"}
       /\ result = NoResult

\* C2: a feature_type other than raw, mfcc and spec never yields a value
\* and is never served as another feature: once the audio is there the call
\* raises ValueError naming the type.
C2_UnsupportedTypeRaises ==
    feature_type \notin Supported
    => /\ pc \notin {"done", "written"}
       /\ result = NoResult
       /\ Finished => outcome = Raised("ValueError", <<feature_type>>,
                                       "features")

C2_Witness ==
    /\ ~arg.isstr
    /\ feature_type = "bogus"
    /\ pc = "raised"
    /\ outcome.exc = "ValueError"
    /\ outcome.names = <<"bogus">>

\* C3: 'raw' always returns, whatever keyword arguments are passed, and the
\* array returned holds the input signal: the same length and the same
\* sample at every index, not normalised, not truncated, not framed.
C3_RawReturnsSignal ==
    (feature_type = "raw" /\ Finished)
    => /\ outcome.kind = "return"
       /\ result.shape = <<Len(sig0)>>
       /\ Len(ret0) = Len(sig0)
       /\ \A i \in 1..Len(sig0) : ret0[i] = sig0[i]
       /\ pc = "done" => heap[result.base] = sig0

C3_Witness ==
    /\ feature_type = "raw"
    /\ pc = "done"
    /\ Len(sig0) >= 3
    /\ ret0 = sig0
    /\ Truthy(kwargs.low_freq)
    /\ Truthy(kwargs.features)

\* The offsets frame j (1-based) reads.
FrameOffsets(j) == {loc.frames[k][j].idx : k \in 1..loc.frame_size}

\* C4: in 'spec', for a signal of length L >= F with H >= 1: remove =
\* (L - F) mod H samples are cut from the tail, there are
\* (L - remove - F) div H + 1 frames, frame i holds the samples
\* [i*H, i*H + F) of the truncated signal, every offset read lies inside the
\* truncated signal, and consecutive frames share exactly F - H offsets.
C4_Framing ==
    ( /\ feature_type = "spec"
      /\ Finished
      /\ loc.hop_size >= 1
      /\ Len(sig0) >= loc.frame_size )
    => LET L == Len(sig0)
           F == loc.frame_size
           H == loc.hop_size
           N == loc.num_frames
       IN  /\ outcome.kind = "return"
           /\ loc.remove = (L - F) % H
           /\ loc.clean_len = L - loc.remove
           /\ N = (L - loc.remove - F) \div H + 1
           /\ N >= 1
           /\ result.shape[1] = N
           /\ Len(loc.frames) = F
           /\ \A k \in 1..F :
                /\ Len(loc.frames[k]) = N
                /\ \A j \in 1..N :
                     /\ loc.frames[k][j].idx = (j - 1) * H + (k - 1)
                     /\ loc.frames[k][j].idx < L - loc.remove
                     /\ loc.frames[k][j].val = Scaled0[(j - 1) * H + k]
           /\ \A j \in 1..(N - 1) :
                Cardinality(FrameOffsets(j) \cap FrameOffsets(j + 1)) = F - H

C4_Witness ==
    /\ feature_type = "spec"
    /\ pc = "done"
    /\ loc.hop_size = 40
    /\ loc.frame_size = 80
    /\ loc.remove = 1
    /\ loc.num_frames = 2
    /\ FrameOffsets(2) = 40..119

\* n is a nearest integer to x / d.
Nearest(n, x, d) == 2 * d * n - d <= 2 * x /\ 2 * x <= 2 * d * n + d

\* C5 as stated: frame_size and hop_size are the nearest integers to
\* sample_rate / 50 and sample_rate / 100.
C5_RoundedSizes ==
    (feature_type = "spec" /\ Finished)
    => /\ Nearest(loc.frame_size, audio.sample_rate, 50)
       /\ Nearest(loc.hop_size, audio.sample_rate, 100)

\* C5, amended: frame_size and hop_size are 0.020 * sample_rate and 0.010 *
\* sample_rate truncated: the largest integers not above sample_rate / 50
\* and sample_rate / 100.
C5_TruncatedSizes ==
    (feature_type = "spec" /\ Finished)
    => /\ 50 * loc.frame_size <= audio.sample_rate
       /\ audio.sample_rate < 50 * (loc.frame_size + 1)
       /\ 100 * loc.hop_size <= audio.sample_rate
       /\ audio.sample_rate < 100 * (loc.hop_size + 1)

C5_Witness ==
    /\ feature_type = "spec"
    /\ pc = "done"
    /\ audio.sample_rate = 190
    /\ loc.frame_size = 3
    /\ loc.hop_size = 1

\* The bin a truthy cutoff <<f>> stands for: the nearest integer to f / 50
\* (a tie goes up), kept within 0..nb.
IsCutoffBin(bin, f, nb) ==
    \E b \in (f[1] \div 50 - 1)..(f[1] \div 50 + 1) :
        /\ 50 * b - 25 <= f[1]
        /\ f[1] < 50 * b + 25
        /\ bin = Min(Max(b, 0), nb)

\* C6: in 'spec', with a low or a high cutoff given, each given cutoff f
\* stands for the bin clamp(round(f / 50), 0, num_bins), num_bins =
\* frame_size div 2 + 1, and the spectrogram keeps exactly the bins
\* [low_bin, high_bin) in their order (low_freq = 100 starts at bin 2,
\* high_freq = 2000 ends before bin 40); with neither given all
\* frame_size div 2 + 1 bins are kept.
C6_FrequencyCrop ==
    (feature_type = "spec" /\ pc \in {"done", "written"})
    => LET nb   == loc.frame_size \div 2 + 1
           low  == kwargs.low_freq
           high == kwargs.high_freq
           lo   == loc.low_bin
           hi   == loc.high_bin
       IN  /\ loc.num_bins = nb
           /\ Truthy(low) => IsCutoffBin(lo, low, nb)
           /\ Truthy(high) => IsCutoffBin(hi, high, nb)
           /\ ~Truthy(low) => lo = 0
           /\ ~Truthy(high) => hi = nb
           /\ (low = <<100>> /\ nb >= 2) => lo = 2
           /\ (high = <<2000>> /\ nb >= 40) => hi = 40
           /\ (low = <<>> /\ high = <<>>) => result.shape[2] = nb
           /\ result.shape = <<loc.num_frames, Max(hi - lo, 0)>>
           /\ Len(ret0) = loc.num_frames
           /\ \A j \in 1..loc.num_frames :
                /\ Len(ret0[j]) = Max(hi - lo, 0)
                /\ \A i \in 1..Len(ret0[j]) :
                     /\ ret0[j][i].bin = lo + i - 1
                     /\ ret0[j][i].edge = (lo + i - 1 \in {0, nb - 1})
                     /\ ret0[j][i].frame =
                            [k \in 1..loc.frame_size |-> loc.frames[k][j].val]

C6_Witness ==
    /\ feature_type = "spec"
    /\ pc = "done"
    /\ kwargs.low_freq = <<100>>
    /\ kwargs.high_freq = <<2000>>
    /\ loc.num_bins = 41
    /\ loc.num_frames = 2
    /\ Len(ret0[1]) = 38
    /\ ret0[1][1].bin = 2
    /\ ret0[2][38].bin = 39

\* What load_audio logs: the file name and the detected MIME type.
Logged(i) == log[i].file = arg.name /\ log[i].ftype = ftype

LoadFailed ==
    pc = "raised" /\ outcome.stage \in {"detect", "unsupported", "loader"}

\* C7 as stated: every failure of load_audio reaches the caller only after
\* a log record with the file name and the detected type, and the loader is
\* invoked at most once.
C7_EveryFailureLogged ==
    /\ loader_calls <= 1
    /\ LoadFailed => \E i \in 1..Len(log) : Logged(i)

\* C7, amended: the loader is invoked at most once; a failure raised by the
\* loader, other than KeyboardInterrupt, reaches the caller after exactly
\* one log record with the file name and the detected type; an unsupported
\* type raises IOError naming the type and the file with nothing logged, and
\* a failure of the type detection (a missing file) and a KeyboardInterrupt
\* reach the caller with nothing logged.
C7_LoaderFailuresLogged ==
    /\ loader_calls <= 1
    /\ LoadFailed =>
         IF outcome.stage = "loader" /\ outcome.exc # "KeyboardInterrupt"
         THEN /\ loader_calls = 1
              /\ Len(log) = 1
              /\ Logged(1)
              /\ ftype = mime_of(arg.name)
         ELSE /\ log = <<>>
              /\ outcome.stage # "loader" => loader_calls = 0
              /\ outcome.stage = "unsupported" =>
                    outcome = Raised("IOError", <<ftype, arg.name>>,
                                     "unsupported")

C7_Witness ==
    /\ pc = "raised"
    /\ outcome.stage = "loader"
    /\ outcome.exc = "CouldntDecodeError"
    /\ log = <<[file |-> "bad.mp3", ftype |-> "audio/mpeg",
                guidance |-> "troubleshooting"]>>

\* C8: when from_file fails with FileNotFoundError, load_pydub raises
\* DependencyError if and only if the file is on disk, and the
\* FileNotFoundError otherwise; a DependencyError is logged with the ffmpeg
\* guidance and then reaches the caller, never a returned buffer.
C8_MissingDependency ==
    /\ [][ pc = "pydub_except" /\ pc' # pc
           => /\ exc = "FileNotFoundError"
              /\ (exc' = "DependencyError") <=> (arg.name \in files)
              /\ (exc' = "FileNotFoundError") <=> (arg.name \notin files) ]_vars
    /\ [][ exc = "DependencyError"
           => /\ exc' = exc
              /\ pc' \in {"load_except", "raised"}
              /\ audio' = NoAudio /\ result' = NoResult ]_vars
    /\ []( (pc = "raised" /\ exc = "DependencyError")
           => /\ outcome = Raised("DependencyError", <<>>, "loader")
              /\ log = <<[file |-> arg.name, ftype |-> ftype,
                          guidance |-> "ffmpeg"]>>
              /\ ftype \in {"audio/mpeg", "audio/x-flac"} )

C8_Witness ==
    /\ pc = "raised"
    /\ outcome.exc = "DependencyError"
    /\ arg.name = "a.flac"
    /\ arg.name \in files
    /\ ~ffmpeg
    /\ Len(log) = 1
    /\ log[1].guidance = "ffmpeg"

\* C9 as stated: for raw, mfcc and spec the call leaves the buffer as it
\* was and returns an array that shares no storage with it, so that a write
\* to one is never seen through the other.
C9_FreshResult ==
    pc \in {"done", "written"}
    => /\ audio = audio0
       /\ pc = "done" => heap[audio.signal] = sig0
       /\ result.base # audio.signal
       /\ wrote = "result" => heap[audio.signal] = sig0
       /\ wrote = "buffer" => heap[result.base] = ret0

\* C9, amended: for raw, mfcc and spec the call leaves the buffer's signal,
\* sample_rate, sample_width and channels as they were; for mfcc and spec
\* the result is a new array that shares no storage with the buffer, so
\* that a write to one is never seen through the other; for raw the result
\* is the buffer's own signal array, and a write to one is seen through the
\* other.
C9_FreshUnlessRaw ==
    pc \in {"done", "written"}
    => /\ audio = audio0
       /\ pc = "done" => heap[audio.signal] = sig0
       /\ IF feature_type = "raw"
          THEN /\ result.base = audio.signal
               /\ wrote # "" => heap[audio.signal] # sig0
               /\ wrote # "" => heap[result.base] # ret0
          ELSE /\ result.base # audio.signal
               /\ wrote = "result" => heap[audio.signal] = sig0
               /\ wrote = "buffer" => heap[result.base] = ret0

C9_Witness ==
    /\ ~arg.isstr
    /\ feature_type = "spec"
    /\ pc = "written"
    /\ wrote = "result"
    /\ heap[result.base] # ret0
    /\ heap[audio.signal] = sig0

\* C10: in 'spec' a cutoff of 0 is an unset cutoff: low_freq = 0 gives what
\* low_freq unset gives (low bin 0) and high_freq = 0 gives what high_freq
\* unset gives (high bin num_bins, not an empty band), whatever the buffer
\* and the other cutoff.
C10_ZeroCutoffIsUnset ==
    (feature_type = "spec" /\ Finished)
    => LET low   == kwargs.low_freq
           high  == kwargs.high_freq
           unlow == spec_features(Scaled0, audio.sample_rate, <<>>, high, 0)
           unhigh == spec_features(Scaled0, audio.sample_rate, low, <<>>, 0)
           Same(r) ==
               /\ (r.status = "ok") <=> (outcome.kind = "return")
               /\ r.status # "ok" => outcome.exc = r.status
               /\ r.status = "ok" =>
                    /\ ret0 = r.data
                    /\ result.shape = r.shape
                    /\ loc.low_bin = r.loc.low_bin
                    /\ loc.high_bin = r.loc.high_bin
       IN  /\ low = <<0>> =>
                Same(unlow) /\ (pc = "done" => loc.low_bin = 0)
           /\ high = <<0>> =>
                Same(unhigh) /\ (pc = "done" => loc.high_bin = loc.num_bins)

C10_Witness ==
    /\ feature_type = "spec"
    /\ pc = "done"
    /\ kwargs.low_freq = <<100>>
    /\ kwargs.high_freq = <<0>>
    /\ loc.num_frames = 2
    /\ loc.low_bin = 2
    /\ loc.high_bin = 41
    /\ Len(ret0[1]) = 39

====
